---- MODULE Spec2Model ----
(***************************************************************************)
(* Model of the collaboration server in src/Backend/index.js: one shared   *)
(* document, a registry of named connections (activeUsersMap), the per-line *)
(* attribution (lineEdits), and the WebSocket handlers that mutate them.    *)
(*                                                                          *)
(* Strings are sequences of one-character strings so that trim() is         *)
(* computed.  A JSON message is a record; a field the sender left out is    *)
(* absent from the record's DOMAIN.  Node runs every handler to completion  *)
(* on one thread, so each handler is one atomic action; an exception that   *)
(* escapes a handler terminates the process (running = FALSE).              *)
(***************************************************************************)
EXTENDS Integers, Sequences, FiniteSets, TLC

\* ---------------------------------------------------------------- bounds
MaxConn == 2
MaxLine == 1
MaxRandom == 1

Conns == 1..MaxConn
Lines == 0..MaxLine

\* ------------------------------------------------------------- JS values
\* The value of a missing field / of an unset variable (not a string of
\* characters: its only element is longer than one character).
Undefined == <<"undefined">>

SP == " "

\* String.prototype.trim on a sequence of characters
RECURSIVE TrimLeft(_)
TrimLeft(s) ==
  IF s = <<>> THEN s
  ELSE IF Head(s) = SP THEN TrimLeft(Tail(s)) ELSE s

RECURSIVE TrimRight(_)
TrimRight(s) ==
  IF s = <<>> THEN s
  ELSE IF s[Len(s)] = SP THEN TrimRight(SubSeq(s, 1, Len(s) - 1)) ELSE s

Trim(s) == TrimRight(TrimLeft(s))

\* parsed.<field>: the field's value, or undefined when it is absent
Field(parsed, f) == IF f \in DOMAIN parsed THEN parsed[f] ELSE Undefined

\* ---------------------------------------------------------------- inputs
UsernameInputs == { <<>>, <<SP>>, <<"a">>, <<SP, "a", SP>>, <<"b">> }
ContentInputs == { <<>>, <<"x">> }
UserIdInputs == { <<"a">> }

\* the changed line numbers, in the ascending order the client reports them
RECURSIVE Ascending(_)
Ascending(n) ==
  IF n < 0 THEN { <<>> }
  ELSE Ascending(n - 1) \cup { Append(s, n) : s \in Ascending(n - 1) }

ChangedLinesInputs == Ascending(MaxLine)

CheckUsernameMessages ==
  [type : {"checkUsername"}, username : UsernameInputs]
    \cup { [type |-> "checkUsername"] }

EditMessages ==
  [type : {"edit"}, content : ContentInputs, changedLines : ChangedLinesInputs,
   userId : UserIdInputs]
    \cup { [type |-> "edit", content |-> <<"x">>, userId |-> <<"a">>] }

UnknownMessages == { [type |-> "ping"] }

\* ------------------------------------------------------------ the palette
colors ==
  << "#EF4444", "#F97316", "#EAB308", "#22C55E", "#0EA5E9", "#6366F1", "#EC4899" >>

\* floor(Math.random() * colors.length), drawn from a bounded prefix
RandomIndices == { r \in 0..MaxRandom : r < Len(colors) }

getRandomColor(r) == colors[r + 1]

\* ----------------------------------------------------------------- state
VARIABLES
  running,                \* the Node process is alive
  readyState,             \* per connection: NONE (not accepted), OPEN, CLOSING, CLOSED
  sharedDocumentContent,
  activeUsersMap,         \* Map in insertion order: sequence of [ws, user]
  lineEdits,              \* object keyed by line number
  sent,                   \* per connection: the messages the last event sent to it
  view,                   \* per open connection: what its client shows
  lastEvent               \* the event handled last

vars == << running, readyState, sharedDocumentContent, activeUsersMap, lineEdits,
           sent, view, lastEvent >>

\* --------------------------------------------------------------- the Map
MapKeys(m) == { m[i].ws : i \in 1..Len(m) }

MapHas(m, ws) == ws \in MapKeys(m)

MapGet(m, ws) == m[CHOOSE i \in 1..Len(m) : m[i].ws = ws].user

\* Array.from(activeUsersMap.values())
MapValues(m) == [i \in 1..Len(m) |-> m[i].user]

MapSetNothing(m, ws, user) == m

\* Map.prototype.set: an existing key keeps its position
MapSet(m, ws, user) ==
  IF MapHas(m, ws)
  THEN [i \in 1..Len(m) |-> IF m[i].ws = ws THEN [ws |-> ws, user |-> user] ELSE m[i]]
  ELSE Append(m, [ws |-> ws, user |-> user])

MapDeleteNothing(m, ws) == m

MapDeleteAll(m, ws) == <<>>

\* Map.prototype.delete
MapDelete(m, ws) == SelectSeq(m, LAMBDA e : e.ws # ws)

\* usersArray.some(user => user.id === desired)
IsTaken(m, desired) == \E i \in 1..Len(m) : m[i].user.id = desired

FindIndexOrFirst(m, userId) ==
  IF \E i \in 1..Len(m) : m[i].user.id = userId
  THEN CHOOSE i \in 1..Len(m) :
         /\ m[i].user.id = userId
         /\ \A j \in 1..(i - 1) : m[j].user.id # userId
  ELSE IF Len(m) > 0 THEN 1 ELSE 0

\* usersArray.find(u => u.id === userId): index of the first match, 0 if none
FindIndex(m, userId) ==
  IF \E i \in 1..Len(m) : m[i].user.id = userId
  THEN CHOOSE i \in 1..Len(m) :
         /\ m[i].user.id = userId
         /\ \A j \in 1..(i - 1) : m[j].user.id # userId
  ELSE 0

\* ------------------------------------------------------ outgoing messages
\* JSON.stringify leaves out a property whose value is undefined
DocumentUpdate(content) ==
  IF content = Undefined
  THEN [type |-> "documentUpdate"]
  ELSE [type |-> "documentUpdate", content |-> content]

UserListUpdate(m) == [type |-> "userListUpdate", users |-> MapValues(m)]

LineAttributionUpdate(le) == [type |-> "lineAttributionUpdate", lineEdits |-> le]

NoSent == [c \in Conns |-> <<>>]

\* wss.clients: the server drops a socket from the set when it has closed
Clients(rs) == { c \in Conns : rs[c] \in {"OPEN", "CLOSING"} }

OpenClientsAll(rs) == Clients(rs)

\* client.readyState === WebSocket.OPEN
OpenClients(rs) == { c \in Clients(rs) : rs[c] = "OPEN" }

Send(out, targets, msg) ==
  [c \in Conns |-> IF c \in targets THEN Append(out[c], msg) ELSE out[c]]

broadcastUserListNone(out, rs, m) == out

broadcastUserListStale(out, rs, m) ==
  Send(out, OpenClients(rs), UserListUpdate(activeUsersMap))

broadcastUserList(out, rs, m) == Send(out, OpenClients(rs), UserListUpdate(m))

broadcastLineAttributionNone(out, rs, le) == out

broadcastLineAttribution(out, rs, le) ==
  Send(out, OpenClients(rs), LineAttributionUpdate(le))

broadcastDocumentFirst(out, rs, content) ==
  Send(out, { c \in OpenClients(rs) : \A d \in OpenClients(rs) : c <= d },
       DocumentUpdate(content))

\* wss.clients.forEach(client => { if open, send documentUpdate })
broadcastDocument(out, rs, content) ==
  Send(out, OpenClients(rs), DocumentUpdate(content))

\* ------------------------------------------------------------ the client
\* view[c] is tracked while c is OPEN; it is back at InitialView when c is not
InitialView == [documentContent |-> <<>>, activeUsers |-> <<>>]

\* ws.current.onmessage
OnMessage(v, msg) ==
  IF msg.type = "documentUpdate"
  THEN [v EXCEPT !.documentContent = Field(msg, "content")]
  ELSE IF msg.type = "userListUpdate"
  THEN [v EXCEPT !.activeUsers = msg.users]
  ELSE v

RECURSIVE Receive(_, _)
Receive(v, msgs) ==
  IF msgs = <<>> THEN v ELSE Receive(OnMessage(v, Head(msgs)), Tail(msgs))

Deliver(vw, out) == [c \in Conns |-> Receive(vw[c], out[c])]

\* ------------------------------------------------------------------ Init
Init ==
  /\ running = TRUE
  /\ readyState = [c \in Conns |-> "NONE"]
  /\ sharedDocumentContent = <<>>
  /\ activeUsersMap = <<>>
  /\ lineEdits = <<>>
  /\ sent = NoSent
  /\ view = [c \in Conns |-> InitialView]
  /\ lastEvent = [op |-> "listen"]

\* an exception escapes the handler: nothing catches it, the process exits and
\* its memory and sockets go with it
Crash ==
  /\ running' = FALSE
  /\ readyState' = [c \in Conns |-> IF readyState[c] = "NONE" THEN "NONE" ELSE "CLOSED"]
  /\ sharedDocumentContent' = <<>>
  /\ activeUsersMap' = <<>>
  /\ lineEdits' = <<>>
  /\ sent' = NoSent
  /\ view' = [c \in Conns |-> InitialView]

\* wss.on('connection')
Connection(ws) ==
  /\ running
  /\ readyState[ws] = "NONE"
  /\ \A c \in Conns : c < ws => readyState[c] # "NONE"
  /\ readyState' = [readyState EXCEPT ![ws] = "OPEN"]
  /\ LET o0 == Send(NoSent, {ws}, DocumentUpdate(sharedDocumentContent))
         o1 == broadcastUserList(o0, readyState', activeUsersMap)
         o2 == broadcastLineAttribution(o1, readyState', lineEdits)
     IN  /\ sent' = o2
         /\ view' = Deliver(view, o2)
  /\ lastEvent' = [op |-> "connection", ws |-> ws]
  /\ UNCHANGED << running, sharedDocumentContent, activeUsersMap, lineEdits >>

\* ws.on('message'): JSON.parse throws on text that is not JSON
Unparseable(ws) ==
  /\ running
  /\ readyState[ws] = "OPEN"
  /\ Crash
  /\ lastEvent' = [op |-> "unparseable", ws |-> ws]

AcceptsNonEmpty(m, desired) == desired # <<>>

AcceptsFree(m, desired) == ~IsTaken(m, desired)

\* the claim of a name: accepted when non-empty and free
Accepts(m, desired) == ~(desired = <<>> \/ IsTaken(m, desired))

RejectReplyAll(ws) ==
  Send(NoSent, OpenClients(readyState), [type |-> "usernameRejected"])

\* ws.send(JSON.stringify({ type: 'usernameRejected' }))
RejectReply(ws) == Send(NoSent, {ws}, [type |-> "usernameRejected"])

\* case 'checkUsername'
CheckUsername(ws, parsed) ==
  /\ running
  /\ readyState[ws] = "OPEN"
  /\ lastEvent' = [op |-> "checkUsername", ws |-> ws, parsed |-> parsed]
  /\ IF "username" \notin DOMAIN parsed
     THEN \* undefined.trim() throws a TypeError
          Crash
     ELSE LET desired == Trim(parsed.username)
          IN  IF ~Accepts(activeUsersMap, desired)
              THEN /\ sent' = RejectReply(ws)
                   /\ view' = Deliver(view, sent')
                   /\ UNCHANGED << running, readyState, sharedDocumentContent,
                                   activeUsersMap, lineEdits >>
              ELSE \E r \in RandomIndices :
                   LET user == [id |-> desired, color |-> getRandomColor(r)]
                       m1 == MapSet(activeUsersMap, ws, user)
                       o0 == Send(NoSent, {ws},
                                  [type |-> "usernameAccepted", userId |-> desired])
                       o1 == broadcastUserList(o0, readyState, m1)
                       o2 == broadcastLineAttribution(o1, readyState, lineEdits)
                   IN  /\ activeUsersMap' = m1
                       /\ sent' = o2
                       /\ view' = Deliver(view, o2)
                       /\ UNCHANGED << running, readyState, sharedDocumentContent,
                                       lineEdits >>

RecordAttributionOnly(le, lineNum, user) ==
  [k \in {lineNum} |-> [userId |-> user.id, color |-> user.color]]

\* lineEdits[lineNum] = { userId: user.id, color: user.color }
RecordAttribution(le, lineNum, user) ==
  [k \in DOMAIN le \cup {lineNum} |->
     IF k = lineNum THEN [userId |-> user.id, color |-> user.color] ELSE le[k]]

AttributeFirstLine(le, m, changedLines, userId) ==
  IF changedLines = <<>> \/ FindIndex(m, userId) = 0 THEN le
  ELSE RecordAttribution(le, Head(changedLines), m[FindIndex(m, userId)].user)

\* changedLines.forEach(lineNum => { find the user; if found, record })
RECURSIVE AttributeLines(_, _, _, _)
AttributeLines(le, m, changedLines, userId) ==
  IF changedLines = <<>> THEN le
  ELSE LET i == FindIndex(m, userId)
           le1 == IF i # 0 THEN RecordAttribution(le, Head(changedLines), m[i].user)
                  ELSE le
       IN  AttributeLines(le1, m, Tail(changedLines), userId)

AppendDocument(old, content) == old \o content

\* sharedDocumentContent = parsed.content
ReplaceDocument(old, content) == content

AuthorSender(ws, parsed) ==
  IF MapHas(activeUsersMap, ws) THEN MapGet(activeUsersMap, ws).id ELSE Undefined

\* const { changedLines, userId } = parsed: the author is the one the message
\* names, whoever sent it
Author(ws, parsed) == Field(parsed, "userId")

\* the message is the one handled just before, from the same connection
SameEdit(ws, parsed) ==
  /\ lastEvent.op = "edit"
  /\ lastEvent.ws = ws
  /\ lastEvent.parsed = parsed

\* case 'edit'
Edit(ws, parsed) ==
  /\ running
  /\ readyState[ws] = "OPEN"
  /\ lastEvent' = [op |-> "edit", ws |-> ws, parsed |-> parsed,
                   again |-> SameEdit(ws, parsed)]
  /\ IF "changedLines" \notin DOMAIN parsed
     THEN \* undefined.forEach throws a TypeError (the document was replaced already)
          Crash
     ELSE LET doc1 == ReplaceDocument(sharedDocumentContent, Field(parsed, "content"))
              le1 == AttributeLines(lineEdits, activeUsersMap, parsed.changedLines,
                                    Author(ws, parsed))
              o0 == broadcastDocument(NoSent, readyState, doc1)
              o1 == broadcastLineAttribution(o0, readyState, le1)
          IN  /\ sharedDocumentContent' = doc1
              /\ lineEdits' = le1
              /\ sent' = o1
              /\ view' = Deliver(view, o1)
              /\ UNCHANGED << running, readyState, activeUsersMap >>

\* default: the type is logged, nothing else
UnknownType(ws, parsed) ==
  /\ running
  /\ readyState[ws] = "OPEN"
  /\ lastEvent' = [op |-> "unknown", ws |-> ws, parsed |-> parsed]
  /\ sent' = NoSent
  /\ UNCHANGED << running, readyState, sharedDocumentContent, activeUsersMap,
                  lineEdits, view >>

\* ws.on('close'): the socket is CLOSED and already out of wss.clients
Close(ws) ==
  /\ running
  /\ readyState[ws] \in {"OPEN", "CLOSING"}
  /\ readyState' = [readyState EXCEPT ![ws] = "CLOSED"]
  /\ lastEvent' = [op |-> "close", ws |-> ws, was |-> readyState[ws],
                   named |-> MapHas(activeUsersMap, ws),
                   id |-> IF MapHas(activeUsersMap, ws)
                          THEN MapGet(activeUsersMap, ws).id ELSE Undefined]
  /\ IF MapHas(activeUsersMap, ws)
     THEN /\ activeUsersMap' = MapDelete(activeUsersMap, ws)
          /\ sent' = broadcastUserList(NoSent, readyState', activeUsersMap')
     ELSE /\ sent' = NoSent
          /\ UNCHANGED activeUsersMap
  /\ view' = [Deliver(view, sent') EXCEPT ![ws] = InitialView]
  /\ UNCHANGED << running, sharedDocumentContent, lineEdits >>

\* ws.on('error'): logged only; the socket is CLOSING when the event is emitted
Error(ws) ==
  /\ running
  /\ readyState[ws] = "OPEN"
  /\ readyState' = [readyState EXCEPT ![ws] = "CLOSING"]
  /\ lastEvent' = [op |-> "error", ws |-> ws]
  /\ sent' = NoSent
  /\ view' = [view EXCEPT ![ws] = InitialView]
  /\ UNCHANGED << running, sharedDocumentContent, activeUsersMap, lineEdits >>

Next ==
  \/ \E ws \in Conns : Connection(ws)
  \/ \E ws \in Conns : Unparseable(ws)
  \/ \E ws \in Conns, parsed \in CheckUsernameMessages : CheckUsername(ws, parsed)
  \/ \E ws \in Conns, parsed \in EditMessages : Edit(ws, parsed)
  \/ \E ws \in Conns, parsed \in UnknownMessages : UnknownType(ws, parsed)
  \/ \E ws \in Conns : Close(ws)
  \/ \E ws \in Conns : Error(ws)

Spec == Init /\ [][Next]_vars

\* the socket library emits 'close' for every socket that is CLOSING
FairSpec == Spec /\ \A ws \in Conns : WF_vars(Close(ws))

\* ================================================================ claims
Range(q) == { q[i] : i \in 1..Len(q) }

IsBlank(name) == \A i \in 1..Len(name) : name[i] = SP

Types(msgs) == [i \in 1..Len(msgs) |-> msgs[i].type]

Held(userId) == \E i \in 1..Len(activeUsersMap) : activeUsersMap[i].user.id = userId

ColorOf(userId) ==
  (CHOOSE u \in Range(MapValues(activeUsersMap)) : u.id = userId).color

\* the last event was an edit that ran to its end
DidEdit == running /\ lastEvent.op = "edit"

\* the last event was a checkUsername with a username
DidCheck == running /\ lastEvent.op = "checkUsername"

\* C1: no two entries of activeUsersMap hold the same identity, compared after
\* trimming and case-sensitively, and no connection has two entries
C1_IdentityUnique ==
  \A i, j \in 1..Len(activeUsersMap) :
    i # j => /\ Trim(activeUsersMap[i].user.id) # Trim(activeUsersMap[j].user.id)
             /\ activeUsersMap[i].ws # activeUsersMap[j].ws

\* two connections are named and the last event was a claim of a held name
C1_Witness ==
  /\ Len(activeUsersMap) = 2
  /\ DidCheck
  /\ MapHas(activeUsersMap, lastEvent.ws)
  /\ Held(Trim(lastEvent.parsed.username))
  /\ MapGet(activeUsersMap, lastEvent.ws).id # Trim(lastEvent.parsed.username)
  /\ sent[lastEvent.ws] = << [type |-> "usernameRejected"] >>

\* C2: after an edit whose userId is held, the document is the edit's content,
\* every open connection was sent a documentUpdate with that content, and every
\* line of changedLines is attributed to userId with the color it holds
C2_EditPostcondition ==
  (DidEdit /\ Held(Field(lastEvent.parsed, "userId"))) =>
    LET parsed == lastEvent.parsed
    IN  /\ sharedDocumentContent = parsed.content
        /\ \A c \in Conns : readyState[c] = "OPEN" =>
             [type |-> "documentUpdate", content |-> parsed.content] \in Range(sent[c])
        /\ \A i \in Range(parsed.changedLines) :
             /\ i \in DOMAIN lineEdits
             /\ lineEdits[i] = [userId |-> parsed.userId, color |-> ColorOf(parsed.userId)]

\* an edit of two lines under a held identity, with two open connections
C2_Witness ==
  /\ DidEdit
  /\ Held(Field(lastEvent.parsed, "userId"))
  /\ Len(lastEvent.parsed.changedLines) = 2
  /\ lastEvent.parsed.content # <<>>
  /\ \A c \in Conns : readyState[c] = "OPEN"

\* every userListUpdate just sent lists exactly the registry, which has no
\* entry for a connection that is closed
RosterSent ==
  /\ \A c \in Conns : \A k \in 1..Len(sent[c]) :
       sent[c][k].type = "userListUpdate" => sent[c][k].users = MapValues(activeUsersMap)
  /\ \A c \in Conns : readyState[c] = "CLOSED" => ~MapHas(activeUsersMap, c)

\* the step closes a named connection
ClosesNamed == lastEvent'.op = "close" /\ lastEvent'.named

\* C3: a named connection's close removes its entry, the open connections are
\* sent the roster without it, no later userListUpdate lists it, and lineEdits
\* keeps every entry
C3_DisconnectNamed ==
  /\ []RosterSent
  /\ [][ClosesNamed =>
          LET ws == lastEvent'.ws
          IN  /\ MapValues(activeUsersMap') =
                   MapValues(SelectSeq(activeUsersMap, LAMBDA e : e.ws # ws))
              /\ \A c \in Conns : readyState'[c] = "OPEN" =>
                   sent'[c] = << [type |-> "userListUpdate",
                                  users |-> MapValues(activeUsersMap')] >>
              /\ lineEdits' = lineEdits]_vars

\* a named connection closed, another is open, and a line is still attributed
\* to the identity that left
C3_Witness ==
  /\ lastEvent.op = "close"
  /\ lastEvent.named
  /\ \E c \in Conns : readyState[c] = "OPEN" /\ Len(sent[c]) = 1
  /\ \E i \in DOMAIN lineEdits : lineEdits[i].userId = lastEvent.id
  /\ ~Held(lastEvent.id)

\* C4: a checkUsername whose username is empty or all whitespace is answered
\* with usernameRejected, and no usernameAccepted is sent
C4_BlankRejected ==
  (DidCheck /\ IsBlank(lastEvent.parsed.username)) =>
    /\ sent[lastEvent.ws] = << [type |-> "usernameRejected"] >>
    /\ \A c \in Conns : "usernameAccepted" \notin Range(Types(sent[c]))

\* a whitespace-only name from a connection that is already named
C4_Witness ==
  /\ DidCheck
  /\ lastEvent.parsed.username = << SP >>
  /\ MapHas(activeUsersMap, lastEvent.ws)

\* C5: handling the same edit a second time in a row changes neither the
\* document nor lineEdits, and sends the same messages again
C5_EditIdempotent ==
  [][(running' /\ lastEvent'.op = "edit" /\ lastEvent'.again) =>
       /\ sharedDocumentContent' = sharedDocumentContent
       /\ lineEdits' = lineEdits
       /\ sent' = sent]_vars

\* the same edit of a line under a held identity was handled twice
C5_Witness ==
  /\ DidEdit
  /\ lastEvent.again
  /\ Held(Field(lastEvent.parsed, "userId"))
  /\ lastEvent.parsed.changedLines # <<>>
  /\ lastEvent.parsed.content # <<>>

\* a message that is not JSON, or that lacks a field its handler dereferences
Malformed(e) ==
  \/ e.op = "unparseable"
  \/ e.op = "checkUsername" /\ "username" \notin DOMAIN e.parsed
  \/ e.op = "edit" /\ "changedLines" \notin DOMAIN e.parsed

\* C6: a malformed message is dropped; the process keeps running, every
\* connection stays as it was, and registry, document and attribution are unchanged
C6_MalformedDropped ==
  [][Malformed(lastEvent') =>
       /\ running'
       /\ readyState' = readyState
       /\ activeUsersMap' = activeUsersMap
       /\ sharedDocumentContent' = sharedDocumentContent
       /\ lineEdits' = lineEdits]_vars

\* the step handles a checkUsername whose name is empty after trim or held
Rejects ==
  /\ running'
  /\ lastEvent'.op = "checkUsername"
  /\ LET desired == Trim(lastEvent'.parsed.username)
     IN  desired = <<>> \/ Held(desired)

\* C7: a rejected checkUsername changes no state, sends the sender exactly one
\* usernameRejected and sends nobody else anything
C7_RejectedFrame ==
  [][Rejects =>
       /\ activeUsersMap' = activeUsersMap
       /\ sharedDocumentContent' = sharedDocumentContent
       /\ lineEdits' = lineEdits
       /\ readyState' = readyState
       /\ sent'[lastEvent'.ws] = << [type |-> "usernameRejected"] >>
       /\ \A c \in Conns \ {lastEvent'.ws} : sent'[c] = <<>>]_vars

\* an unnamed connection asked for a name that another open connection holds,
\* while lines are attributed
C7_Witness ==
  /\ DidCheck
  /\ ~MapHas(activeUsersMap, lastEvent.ws)
  /\ Held(Trim(lastEvent.parsed.username))
  /\ \A c \in Conns : readyState[c] = "OPEN"
  /\ lineEdits # <<>>
  /\ sent[lastEvent.ws] = << [type |-> "usernameRejected"] >>

\* the step is the close of a named connection on which an error was reported
ClosesErrored == lastEvent'.op = "close" /\ lastEvent'.named /\ lastEvent'.was = "CLOSING"

\* C8: a named connection on which an error was reported is then closed and
\* its entry removed, and at that close every open connection is sent the
\* roster without it
C8_ErrorReleases ==
  /\ \A ws \in Conns :
       (readyState[ws] = "CLOSING" /\ MapHas(activeUsersMap, ws))
         ~> (readyState[ws] = "CLOSED" /\ ~MapHas(activeUsersMap, ws))
  /\ [][ClosesErrored =>
          LET ws == lastEvent'.ws
          IN  /\ ~MapHas(activeUsersMap', ws)
              /\ \A c \in Conns : readyState'[c] = "OPEN" =>
                   sent'[c] = << [type |-> "userListUpdate",
                                  users |-> MapValues(MapDelete(activeUsersMap, ws))] >>]_vars

\* the errored connection of a named participant has closed and the other,
\* open connection was told
C8_Witness ==
  /\ lastEvent.op = "close"
  /\ lastEvent.named
  /\ lastEvent.was = "CLOSING"
  /\ \E c \in Conns : readyState[c] = "OPEN" /\ Len(sent[c]) = 1

\* C9: once a connection is named, its identity and color stay as they are
\* until it closes, whatever it sends
C9_IdentityFixed ==
  [][\A ws \in Conns :
       (MapHas(activeUsersMap, ws) /\ running' /\ readyState'[ws] # "CLOSED") =>
         /\ MapHas(activeUsersMap', ws)
         /\ MapGet(activeUsersMap', ws) = MapGet(activeUsersMap, ws)]_vars

\* C10: the document is the content of the edit handled last (empty before
\* any), and every open connection shows exactly the stored document
C10_LastWriterWins ==
  /\ [](lastEvent.op = "listen" => sharedDocumentContent = <<>>)
  /\ [](running => \A c \in Conns :
          readyState[c] = "OPEN" => view[c].documentContent = sharedDocumentContent)
  /\ [][running' =>
          sharedDocumentContent' =
            IF lastEvent'.op = "edit" THEN Field(lastEvent'.parsed, "content")
            ELSE sharedDocumentContent]_vars

\* with every connection open, the last connection's edit emptied the document
\* after an earlier edit under another color had attributed a line
C10_Witness ==
  /\ DidEdit
  /\ lastEvent.ws = MaxConn
  /\ lastEvent.parsed.content = <<>>
  /\ lastEvent.parsed.changedLines = << 0 >>
  /\ \A c \in Conns : readyState[c] = "OPEN"
  /\ DOMAIN lineEdits = Lines
  /\ lineEdits[0].color # lineEdits[1].color

\* the messages a handler sends, as the claims name them
DocMsg(content) == [type |-> "documentUpdate", content |-> content]

UsersMsg(m) ==
  [type |-> "userListUpdate", users |-> [i \in 1..Len(m) |-> m[i].user]]

AttrMsg(le) == [type |-> "lineAttributionUpdate", lineEdits |-> le]

\* C11: on accept the new connection has no registry entry and is sent the
\* document, the roster and the attribution in that order; every other open
\* connection is sent the roster and then the attribution; document, registry
\* and lineEdits stay as they are
C11_OnAccept ==
  [][lastEvent'.op = "connection" =>
       LET ws == lastEvent'.ws
       IN  /\ readyState'[ws] = "OPEN"
           /\ ws \notin { activeUsersMap'[i].ws : i \in 1..Len(activeUsersMap') }
           /\ sent'[ws] = << DocMsg(sharedDocumentContent), UsersMsg(activeUsersMap),
                             AttrMsg(lineEdits) >>
           /\ \A c \in Conns \ {ws} :
                sent'[c] = IF readyState'[c] = "OPEN"
                           THEN << UsersMsg(activeUsersMap), AttrMsg(lineEdits) >>
                           ELSE <<>>
           /\ sharedDocumentContent' = sharedDocumentContent
           /\ activeUsersMap' = activeUsersMap
           /\ lineEdits' = lineEdits]_vars

\* a connection was accepted while another, named one was open, with a
\* non-empty document and an attributed line
C11_Witness ==
  /\ lastEvent.op = "connection"
  /\ \E c \in Conns \ {lastEvent.ws} :
       readyState[c] = "OPEN" /\ MapHas(activeUsersMap, c) /\ Len(sent[c]) = 2
  /\ sharedDocumentContent # <<>>
  /\ lineEdits # <<>>

\* the step handles a checkUsername whose trimmed name is non-empty and free
Accepted ==
  /\ running'
  /\ lastEvent'.op = "checkUsername"
  /\ LET desired == Trim(lastEvent'.parsed.username)
     IN  desired # <<>> /\ ~Held(desired)

\* C12: an accepted checkUsername maps the connection to the trimmed name and
\* one of the 7 palette colors; the claimant is sent usernameAccepted, then the
\* roster, then the attribution; every other open connection is sent the
\* roster, which lists the new participant, and then the attribution
C12_OnAccepted ==
  [][Accepted =>
       LET ws == lastEvent'.ws
           desired == Trim(lastEvent'.parsed.username)
       IN  /\ Len(colors) = 7
           /\ \E i \in 1..Len(activeUsersMap') :
                /\ activeUsersMap'[i].ws = ws
                /\ activeUsersMap'[i].user.id = desired
                /\ activeUsersMap'[i].user.color \in Range(colors)
                /\ activeUsersMap'[i].user \in Range(UsersMsg(activeUsersMap').users)
           /\ sent'[ws] = << [type |-> "usernameAccepted", userId |-> desired],
                             UsersMsg(activeUsersMap'), AttrMsg(lineEdits) >>
           /\ \A c \in Conns \ {ws} :
                sent'[c] = IF readyState'[c] = "OPEN"
                           THEN << UsersMsg(activeUsersMap'), AttrMsg(lineEdits) >>
                           ELSE <<>>]_vars

\* a padded name was accepted for the second participant, both connections open
C12_Witness ==
  /\ DidCheck
  /\ lastEvent.parsed.username = << SP, "a", SP >>
  /\ Len(activeUsersMap) = 2
  /\ \A c \in Conns : readyState[c] = "OPEN" /\ Len(sent[c]) >= 2
  /\ sent[lastEvent.ws][1].type = "usernameAccepted"

\* the last event was a claim that was accepted
WasAccepted ==
  /\ running
  /\ lastEvent.op = "checkUsername"
  /\ sent[lastEvent.ws] # <<>>
  /\ sent[lastEvent.ws][1].type = "usernameAccepted"

\* C13: when one connection's claim of a name has just been accepted, the
\* claim of the same name that another connection sends next is rejected, in
\* either order of the two connections; handlers do not interleave
C13_ClaimsAtomic ==
  [][(/\ WasAccepted
      /\ running'
      /\ lastEvent'.op = "checkUsername"
      /\ lastEvent'.ws # lastEvent.ws
      /\ Trim(lastEvent'.parsed.username) = Trim(lastEvent.parsed.username)) =>
       /\ sent'[lastEvent'.ws] = << [type |-> "usernameRejected"] >>
       /\ activeUsersMap' = activeUsersMap]_vars

\* the first connection, still unnamed, lost the name to the later connection
C13_Witness ==
  /\ DidCheck
  /\ lastEvent.ws = 1
  /\ Trim(lastEvent.parsed.username) = << "a" >>
  /\ sent[1] = << [type |-> "usernameRejected"] >>
  /\ MapKeys(activeUsersMap) = {2}
  /\ MapGet(activeUsersMap, 2).id = << "a" >>

\* the step is a completed edit
Edits == running' /\ lastEvent'.op = "edit"

\* C14: an edit whose userId nobody holds replaces the document and sends every
\* open connection the document and then the attribution, and leaves lineEdits
\* as it was at every index
C14_UnheldEdit ==
  [][(Edits /\ ~Held(Field(lastEvent'.parsed, "userId"))) =>
       /\ sharedDocumentContent' = lastEvent'.parsed.content
       /\ lineEdits' = lineEdits
       /\ \A c \in Conns :
            sent'[c] = IF readyState'[c] = "OPEN"
                       THEN << DocMsg(lastEvent'.parsed.content), AttrMsg(lineEdits) >>
                       ELSE <<>>]_vars

\* an edit of both lines under an identity whose holder has disconnected, while
\* another participant is named and the old attribution stays
C14_Witness ==
  /\ DidEdit
  /\ ~Held(Field(lastEvent.parsed, "userId"))
  /\ Len(lastEvent.parsed.changedLines) = 2
  /\ \E c \in Conns : readyState[c] = "CLOSED"
  /\ activeUsersMap # <<>>
  /\ \E i \in DOMAIN lineEdits : lineEdits[i].userId = lastEvent.parsed.userId

\* lineEdits after an edit, from the message and the registry alone
ExpectedLineEdits(le, parsed) ==
  LET userId == Field(parsed, "userId")
      touched == IF Held(userId) THEN Range(parsed.changedLines) ELSE {}
  IN  [k \in DOMAIN le \cup touched |->
         IF k \in touched THEN [userId |-> userId, color |-> ColorOf(userId)] ELSE le[k]]

\* C15: an edit from any open connection, named or not, replaces the document,
\* and the resulting lineEdits is determined by the message's userId and the
\* registry, not by the sender
C15_NoAuthorization ==
  [][Edits =>
       /\ sharedDocumentContent' = lastEvent'.parsed.content
       /\ lineEdits' = ExpectedLineEdits(lineEdits, lastEvent'.parsed)]_vars

\* a connection named otherwise had a line attributed to the identity that
\* another connection holds
C15_Witness ==
  /\ DidEdit
  /\ MapHas(activeUsersMap, lastEvent.ws)
  /\ MapGet(activeUsersMap, lastEvent.ws).id # lastEvent.parsed.userId
  /\ Held(lastEvent.parsed.userId)
  /\ lastEvent.parsed.changedLines = << 0 >>
  /\ lineEdits[0].userId = lastEvent.parsed.userId

\* C16: lineEdits changes only in an edit and only at the indices of
\* changedLines: an edit keeps every other entry, whatever the length of the new
\* document, and no other event changes the mapping
C16_AttributionFrame ==
  [][running' =>
       IF lastEvent'.op = "edit"
       THEN LET touched == Range(lastEvent'.parsed.changedLines)
            IN  /\ DOMAIN lineEdits \subseteq DOMAIN lineEdits'
                /\ DOMAIN lineEdits' \subseteq DOMAIN lineEdits \cup touched
                /\ \A k \in DOMAIN lineEdits \ touched : lineEdits'[k] = lineEdits[k]
       ELSE lineEdits' = lineEdits]_vars

\* an edit that emptied the document rewrote line 1 and kept the entry of
\* line 0, which has another color
C16_Witness ==
  /\ DidEdit
  /\ lastEvent.parsed.content = <<>>
  /\ lastEvent.parsed.changedLines = << 1 >>
  /\ Held(Field(lastEvent.parsed, "userId"))
  /\ DOMAIN lineEdits = Lines
  /\ lineEdits[0].color # lineEdits[1].color

\* the part of what a connection was sent that is a broadcast
Broadcasts(c) ==
  SelectSeq(sent[c], LAMBDA msg :
    \/ msg.type \in {"userListUpdate", "lineAttributionUpdate"}
    \/ msg.type = "documentUpdate" /\ lastEvent.op = "edit")

\* the broadcasts of the last event, each with the state as it is now
ExpectedBroadcasts ==
  IF lastEvent.op = "connection" \/ WasAccepted
  THEN << UsersMsg(activeUsersMap), AttrMsg(lineEdits) >>
  ELSE IF lastEvent.op = "edit"
  THEN << DocMsg(sharedDocumentContent), AttrMsg(lineEdits) >>
  ELSE IF lastEvent.op = "close" /\ lastEvent.named
  THEN << UsersMsg(activeUsersMap) >>
  ELSE <<>>

\* C17: each broadcast reaches exactly the connections that are open, a
\* connection that is not open is sent nothing, and each broadcast carries the
\* whole current roster, attribution or document
C17_BroadcastToOpen ==
  running =>
    \A c \in Conns :
      IF readyState[c] = "OPEN"
      THEN Broadcasts(c) = ExpectedBroadcasts
      ELSE sent[c] = <<>>

\* an edit was broadcast while one connection, in wss.clients but no longer
\* open, was skipped and the open one was served
C17_Witness ==
  /\ DidEdit
  /\ \E c \in Conns : readyState[c] = "CLOSING" /\ sent[c] = <<>>
  /\ \E c \in Conns : readyState[c] = "OPEN" /\ Len(sent[c]) = 2

\* C18: the close of an unnamed connection changes no state and sends nothing;
\* the close of a named one removes only its entry and sends the open
\* connections the roster and nothing else; document and lineEdits stay
C18_CloseEffects ==
  [][lastEvent'.op = "close" =>
       LET ws == lastEvent'.ws
       IN  /\ sharedDocumentContent' = sharedDocumentContent
           /\ lineEdits' = lineEdits
           /\ \A c \in Conns \ {ws} : readyState'[c] = readyState[c]
           /\ IF \E i \in 1..Len(activeUsersMap) : activeUsersMap[i].ws = ws
              THEN /\ activeUsersMap' = SelectSeq(activeUsersMap, LAMBDA e : e.ws # ws)
                   /\ \A c \in Conns :
                        sent'[c] = IF readyState'[c] = "OPEN"
                                   THEN << UsersMsg(activeUsersMap') >> ELSE <<>>
              ELSE /\ activeUsersMap' = activeUsersMap
                   /\ \A c \in Conns : sent'[c] = <<>>]_vars

\* an unnamed connection closed while a named one was open and a line attributed
C18_Witness ==
  /\ lastEvent.op = "close"
  /\ ~lastEvent.named
  /\ \E c \in Conns : readyState[c] = "OPEN" /\ MapHas(activeUsersMap, c)
  /\ lineEdits # <<>>
  /\ sent = NoSent

\* C19: every open connection shows exactly the registry, which has one entry
\* per named connection that has not closed, and an event that changes the
\* registry sends the new roster to every open connection
C19_RosterConvergence ==
  /\ [](running =>
          /\ \A c \in Conns : readyState[c] = "OPEN" =>
               view[c].activeUsers = UsersMsg(activeUsersMap).users
          /\ \A i, j \in 1..Len(activeUsersMap) :
               /\ readyState[activeUsersMap[i].ws] \in {"OPEN", "CLOSING"}
               /\ i # j => activeUsersMap[i].ws # activeUsersMap[j].ws)
  /\ [][(running' /\ activeUsersMap' # activeUsersMap) =>
          \A c \in Conns : readyState'[c] = "OPEN" =>
            UsersMsg(activeUsersMap') \in Range(sent'[c])]_vars

\* after the other participant left, the open, named connection shows itself alone
C19_Witness ==
  /\ lastEvent.op = "close"
  /\ lastEvent.named
  /\ \E c \in Conns :
       /\ readyState[c] = "OPEN"
       /\ MapHas(activeUsersMap, c)
       /\ view[c].activeUsers = << MapGet(activeUsersMap, c) >>

\* C20: the claim of an identity that directly follows the close of its holder
\* is accepted and gets a palette color, and lineEdits keeps its entries, the
\* earlier holder's color included
C20_ReuseAfterRelease ==
  [][(/\ running
      /\ lastEvent.op = "close"
      /\ lastEvent.named
      /\ running'
      /\ lastEvent'.op = "checkUsername"
      /\ Trim(lastEvent'.parsed.username) = lastEvent.id) =>
       /\ sent'[lastEvent'.ws][1] = [type |-> "usernameAccepted", userId |-> lastEvent.id]
       /\ \E i \in 1..Len(activeUsersMap') :
            /\ activeUsersMap'[i].ws = lastEvent'.ws
            /\ activeUsersMap'[i].user.id = lastEvent.id
            /\ activeUsersMap'[i].user.color \in Range(colors)
       /\ lineEdits' = lineEdits]_vars

\* the identity of a closed connection was claimed again, and a line recorded
\* under it carries another color than its present holder
C20_Witness ==
  /\ WasAccepted
  /\ \E c \in Conns : readyState[c] = "CLOSED"
  /\ LET id == Trim(lastEvent.parsed.username)
     IN  \E i \in DOMAIN lineEdits :
           /\ lineEdits[i].userId = id
           /\ lineEdits[i].color # ColorOf(id)

====
